---- MODULE Spec2Model ----
(***************************************************************************)
(* State-machine model of the AI-Thumb single page application: the auth   *)
(* context (session bootstrap, login, logout), the router of App, the      *)
(* callback handler, the editor's generation request, the dashboard's      *)
(* history fetch and the pricing page's checkout.  The backend and the     *)
(* user are the environment: every request is answered by a success or a   *)
(* failure step, every click is an action guarded by the control being     *)
(* rendered.                                                               *)
(***************************************************************************)
EXTENDS Integers, Sequences, FiniteSets, TLC

\* ------------------------------------------------------------------ bounds
MaxCredits == 1         \* credit values the backend returns: 0..MaxCredits
MaxEffectRuns == 2      \* runs of the callback handler's effect per page load
MaxLogoutInFlight == 1  \* logout requests in flight
MaxGenInFlight == 1     \* generation requests in flight (live and orphaned)
MaxCheckoutInFlight == 1  \* checkout-session requests in flight

\* ------------------------------------------------------------ value spaces
Null == "null"
Undefined == "undefined"

\* JavaScript null | object as an option: <<>> is null, <<r>> the object r
None == <<>>
Some(x) == <<x>>

UserIds == {"u1"}
UserNameOf(id) == "name-" \o id
Users == {[id |-> i, name |-> UserNameOf(i), credits |-> c] : i \in UserIds, c \in 0..MaxCredits}

Images == {"img1"}
\* the files offered to a file input: one in the whole application, two where the
\* Editor is studied alone (a second selection can then replace a first)
Files == {"file1"}
MoreFiles == {"file1", "file2"}
DataUrlOf(f) == "data:" \o f
ThumbnailLists == {<<>>, <<"thumb1">>}

Paths == {"/", "/auth/callback", "/pricing", "/dashboard", "/editor"}

\* A URL fragment is "" or '#' followed by tokens; "session_id" is one token.
\* The fragments a page is loaded with: none, one without the marker, the marker
\* with no value, with a value, after another parameter, behind a longer name,
\* the name without '=', and an empty value shadowing a later one.
Hashes ==
  { <<>>,
    <<"#", "v">>,
    <<"#", "session_id">>,
    <<"#", "session_id", "=">>,
    <<"#", "session_id", "=", "v">>,
    <<"#", "v", "=", "v", "&", "session_id", "=", "v">>,
    <<"#", "v", "session_id", "=", "v">>,
    <<"#", "session_id", "=", "&", "session_id", "=", "v">> }

\* ------------------------------------------- URL fragment (part_000, part_002)
\* String.prototype.substring(1): the string without its first character
Substring1(h) == IF Len(h) = 0 THEN <<>> ELSE Tail(h)

\* String.prototype.includes('session_id='): the two tokens occur adjacent
HashIncludesMarker(h) ==
  \E i \in 1..(Len(h) - 1) : h[i] = "session_id" /\ h[i + 1] = "="

\* index of the first occurrence of tok in s, 0 when there is none
FirstIndex(s, tok) ==
  IF \E i \in 1..Len(s) : s[i] = tok
  THEN CHOOSE i \in 1..Len(s) : s[i] = tok /\ \A j \in 1..(i - 1) : s[j] # tok
  ELSE 0

\* the '&'-separated parts of a query string, in order
RECURSIVE SplitAmp(_)
SplitAmp(s) ==
  LET i == FirstIndex(s, "&")
  IN IF i = 0 THEN <<s>>
     ELSE <<SubSeq(s, 1, i - 1)>> \o SplitAmp(SubSeq(s, i + 1, Len(s)))

\* one part as a name/value pair, split at its first '='
ParamOf(part) ==
  LET i == FirstIndex(part, "=")
  IN IF i = 0 THEN [name |-> part, value |-> <<>>]
     ELSE [name |-> SubSeq(part, 1, i - 1), value |-> SubSeq(part, i + 1, Len(part))]

\* new URLSearchParams(q): the pairs of the non-empty parts
SearchParams(q) ==
  LET parts == SplitAmp(q)
  IN [i \in 1..Len(SelectSeq(parts, LAMBDA p : Len(p) > 0)) |->
        ParamOf(SelectSeq(parts, LAMBDA p : Len(p) > 0)[i])]

\* URLSearchParams.get(name): the first value under that name, or null
ParamsGet(params, name) ==
  IF \E i \in 1..Len(params) : params[i].name = name
  THEN Some(params[CHOOSE i \in 1..Len(params) :
                     /\ params[i].name = name
                     /\ \A j \in 1..(i - 1) : params[j].name # name].value)
  ELSE None

\* part_000 line 16: the session identifier read from the fragment
SessionIdOf(h) == ParamsGet(SearchParams(Substring1(h)), <<"session_id">>)

\* !sessionId : null and the empty string are falsy
SessionIdMissing(sid) == sid = None \/ sid = Some(<<>>)

\* ------------------------------------------------------------------- state
VARIABLES
  editorKind,     \* which Editor page the build ships: "text" or "image"
  path,           \* location.pathname
  hash,           \* location.hash
  leaving,        \* target of a started full-page navigation (window.location.href = ...)
  user,           \* AuthProvider: user state, None is null
  loading,        \* AuthProvider: loading state
  meReq,          \* GET /api/auth/me of checkAuth: "idle", "pending", "done"
  logoutInFlight, \* POST /api/auth/logout requests awaiting their response
  checkoutInFlight, \* POST /api/create-checkout-session requests awaiting their response
  hasProcessed,   \* AuthCallback: hasProcessed.current of the mounted instance
  cbReq,          \* GET /api/auth/session-data in flight: None or Some(session id)
  cbOutcome,      \* how processing ended in this page load: "none", "nosession", "ok", "failed"
  effectRuns,     \* AuthCallback: runs of the mounted instance's effect
  exchangeSent,   \* session-exchange requests sent in this page load
  editor,         \* Editor: the mounted instance's state
  readers,        \* Editor: FileReader reads in progress, [slot, file]
  genLive,        \* POST /api/generate of the mounted Editor: None or Some(payload)
  genStale,       \* POST /api/generate requests in flight whose Editor was unmounted
  dash,           \* Dashboard: the mounted instance's state
  dashFetch,      \* GET /api/thumbnails of the mounted Dashboard: "none", "pending", "done"
  toast,          \* the notice the latest step raised through sonner's toast, "none" if none
  cbEffects,      \* ordered side effects of the callback handler in this page load
  logoutEffects   \* ordered side effects of the logout that was acknowledged last

vars == <<editorKind, path, hash, leaving, user, loading, meReq, logoutInFlight,
          checkoutInFlight, hasProcessed, cbReq, cbOutcome, effectRuns, exchangeSent,
          editor, readers, genLive, genStale, dash, dashFetch, toast, cbEffects, logoutEffects>>

\* Editor.jsx lines 13-16, part_001 lines 15-24: initial component state
EditorInit ==
  [description |-> "", subjectImage |-> Null, referenceImage |-> Null,
   subjectPreview |-> Null, referencePreview |-> Null,
   loading |-> FALSE, generatedImage |-> Null]

\* Dashboard.jsx lines 11-12: initial component state
DashInit == [thumbnails |-> <<>>, loading |-> TRUE]

\* ------------------------------------------------------ rendering (part_002)
\* part_002 lines 12-20: what ProtectedRoute renders around a child page
ProtectedRouteOpen(l, u, child) ==
  IF u # None THEN child
  ELSE IF l THEN "Loading"
  ELSE "Navigate"
ProtectedRoute(l, u, child) ==
  IF l THEN "Loading"
  ELSE IF u = None THEN "Navigate"
  ELSE child

\* part_002 lines 22-50: the page AppContent renders for a location
AppContentRoutesFirst(p, h, l, u) ==
  CASE p = "/dashboard" -> ProtectedRoute(l, u, "Dashboard")
    [] p = "/editor" -> ProtectedRoute(l, u, "Editor")
    [] p = "/auth/callback" -> "AuthCallback"
    [] p = "/" -> IF HashIncludesMarker(h) THEN "AuthCallback" ELSE "Landing"
    [] p = "/pricing" -> IF HashIncludesMarker(h) THEN "AuthCallback" ELSE "Pricing"
AppContent(p, h, l, u) ==
  IF HashIncludesMarker(h) THEN "AuthCallback"
  ELSE CASE p = "/" -> "Landing"
         [] p = "/auth/callback" -> "AuthCallback"
         [] p = "/pricing" -> "Pricing"
         [] p = "/dashboard" -> ProtectedRoute(l, u, "Dashboard")
         [] p = "/editor" -> ProtectedRoute(l, u, "Editor")

View == AppContent(path, hash, loading, user)

\* part_002 lines 25-31: the Navbar is part of every page but the fragment's callback
NavbarRendered == ~HashIncludesMarker(hash)

\* React commits the render that follows a state change: a page that is no longer
\* rendered is unmounted and loses its state, and its requests are orphaned
\* (the arguments are the values the mounted instances would keep).
Reconcile(ed, rd, gl, gs, da, df, hp, er) ==
  LET v == AppContent(path', hash', loading', user')
  IN /\ editor' = IF v = "Editor" THEN ed ELSE EditorInit
     /\ readers' = IF v = "Editor" THEN rd ELSE {}
     /\ genLive' = IF v = "Editor" THEN gl ELSE None
     /\ genStale' = IF v # "Editor" /\ gl # None THEN gs + 1 ELSE gs
     /\ dash' = IF v = "Dashboard" THEN da ELSE DashInit
     /\ dashFetch' = IF v = "Dashboard" THEN df ELSE "none"
     /\ hasProcessed' = IF v = "AuthCallback" THEN hp ELSE FALSE
     /\ effectRuns' = IF v = "AuthCallback" THEN er ELSE 0

\* the user acts on a document that is not being navigated away from
Interactive == leaving = "none"

Keep == Reconcile(editor, readers, genLive, genStale, dash, dashFetch, hasProcessed, effectRuns)

\* ------------------------------------------------------------- page loads
\* The JavaScript state of a freshly loaded document at location p, h
Loaded(p, h) ==
  /\ path = p
  /\ hash = h
  /\ leaving = "none"
  /\ user = None
  /\ loading = TRUE
  /\ meReq = "idle"
  /\ logoutInFlight = 0
  /\ checkoutInFlight = 0
  /\ hasProcessed = FALSE
  /\ cbReq = None
  /\ cbOutcome = "none"
  /\ effectRuns = 0
  /\ exchangeSent = 0
  /\ editor = EditorInit
  /\ readers = {}
  /\ genLive = None
  /\ genStale = 0
  /\ dash = DashInit
  /\ dashFetch = "none"
  /\ toast = "none"
  /\ cbEffects = <<>>
  /\ logoutEffects = <<>>

\* the same state, as the successor of a step
LoadedNext(p, h) ==
  /\ path' = p
  /\ hash' = h
  /\ leaving' = "none"
  /\ user' = None
  /\ loading' = TRUE
  /\ meReq' = "idle"
  /\ logoutInFlight' = 0
  /\ checkoutInFlight' = 0
  /\ hasProcessed' = FALSE
  /\ cbReq' = None
  /\ cbOutcome' = "none"
  /\ effectRuns' = 0
  /\ exchangeSent' = 0
  /\ editor' = EditorInit
  /\ readers' = {}
  /\ genLive' = None
  /\ genStale' = 0
  /\ dash' = DashInit
  /\ dashFetch' = "none"
  /\ toast' = "none"
  /\ cbEffects' = <<>>
  /\ logoutEffects' = <<>>

Init ==
  /\ editorKind \in {"text", "image"}
  /\ \E p \in Paths, h \in Hashes : Loaded(p, h)

\* AuthContext.jsx line 31: the identity provider redirects back to /auth/callback,
\* with a fragment of its choosing; line 39: logout loads "/"; Pricing.jsx line 23:
\* the checkout page is external and sends the browser back to a location of its choosing
Arrivals(target) ==
  IF target = "/" THEN {<<"/", <<>>>>}
  ELSE IF target = "idp" THEN {"/auth/callback"} \X Hashes
  ELSE Paths \X {<<>>}

\* A full-page navigation the application started completes: the document is
\* replaced and the application starts anew.
PageLoad ==
  /\ leaving # "none"
  /\ \E a \in Arrivals(leaving) : LoadedNext(a[1], a[2])
  /\ UNCHANGED editorKind

\* ------------------------------------------- AuthProvider (AuthContext.jsx)
\* lines 13-15 and 19: the mount effect calls checkAuth, which sends GET /api/auth/me
CheckAuthEffect ==
  /\ meReq = "idle"
  /\ meReq' = "pending"
  /\ toast' = "none"
  /\ UNCHANGED <<editorKind, path, hash, leaving, user, loading, logoutInFlight,
                 checkoutInFlight, hasProcessed, cbReq, cbOutcome, effectRuns,
                 exchangeSent, editor, readers, genLive, genStale, dash, dashFetch,
                 cbEffects, logoutEffects>>

\* lines 19-22, 25-27: the request succeeds with the user record `data`
CheckAuthOkKeepsLoading(data) ==
  /\ meReq = "pending"
  /\ meReq' = "done"
  /\ user' = Some(data)
  /\ loading' = loading
  /\ toast' = "none"
  /\ UNCHANGED <<editorKind, path, hash, leaving, logoutInFlight, checkoutInFlight,
                 cbReq, cbOutcome, exchangeSent, cbEffects, logoutEffects>>
  /\ Keep
CheckAuthOk(data) ==
  /\ meReq = "pending"
  /\ meReq' = "done"
  /\ user' = Some(data)
  /\ loading' = FALSE
  /\ toast' = "none"
  /\ UNCHANGED <<editorKind, path, hash, leaving, logoutInFlight, checkoutInFlight,
                 cbReq, cbOutcome, exchangeSent, cbEffects, logoutEffects>>
  /\ Keep

\* lines 23-27: the request fails
CheckAuthFail ==
  /\ meReq = "pending"
  /\ meReq' = "done"
  /\ user' = None
  /\ loading' = FALSE
  /\ toast' = "none"
  /\ UNCHANGED <<editorKind, path, hash, leaving, logoutInFlight, checkoutInFlight,
                 cbReq, cbOutcome, exchangeSent, cbEffects, logoutEffects>>
  /\ Keep

\* lines 30-33: login, from the Navbar's or the Landing page's button
Login ==
  /\ Interactive
  /\ user = None
  /\ NavbarRendered \/ View = "Landing"
  /\ leaving' = "idp"
  /\ toast' = "none"
  /\ UNCHANGED <<editorKind, path, hash, user, loading, meReq, logoutInFlight,
                 checkoutInFlight, hasProcessed, cbReq, cbOutcome, effectRuns,
                 exchangeSent, editor, readers, genLive, genStale, dash, dashFetch,
                 cbEffects, logoutEffects>>

\* lines 35-37: logout, from the Navbar's button, sends POST /api/auth/logout
LogoutClick ==
  /\ Interactive
  /\ NavbarRendered
  /\ user # None
  /\ logoutInFlight < MaxLogoutInFlight
  /\ logoutInFlight' = logoutInFlight + 1
  /\ toast' = "none"
  /\ UNCHANGED <<editorKind, path, hash, leaving, user, loading, meReq,
                 checkoutInFlight, hasProcessed, cbReq, cbOutcome, effectRuns,
                 exchangeSent, editor, readers, genLive, genStale, dash, dashFetch,
                 cbEffects, logoutEffects>>

\* lines 37-39: the backend acknowledges the logout
LogoutOk ==
  /\ logoutInFlight > 0
  /\ logoutInFlight' = logoutInFlight - 1
  /\ user' = None
  /\ leaving' = "/"
  /\ logoutEffects' = <<"setUser:null", "href:/">>
  /\ toast' = "none"
  /\ UNCHANGED <<editorKind, path, hash, loading, meReq, checkoutInFlight, cbReq,
                 cbOutcome, exchangeSent, cbEffects>>
  /\ Keep

\* lines 40-42: the logout request fails; the error is only logged
LogoutFailClears ==
  /\ logoutInFlight > 0
  /\ logoutInFlight' = logoutInFlight - 1
  /\ user' = None
  /\ toast' = "none"
  /\ UNCHANGED <<editorKind, path, hash, leaving, loading, meReq, checkoutInFlight,
                 cbReq, cbOutcome, exchangeSent, cbEffects, logoutEffects>>
  /\ Keep
LogoutFail ==
  /\ logoutInFlight > 0
  /\ logoutInFlight' = logoutInFlight - 1
  /\ toast' = "none"
  /\ UNCHANGED <<editorKind, path, hash, leaving, user, loading, meReq,
                 checkoutInFlight, hasProcessed, cbReq, cbOutcome, effectRuns,
                 exchangeSent, editor, readers, genLive, genStale, dash, dashFetch,
                 cbEffects, logoutEffects>>

\* ------------------------------------------------------ client-side routing
\* the <Link> elements a page shows, by target
LinkRendered(to) ==
  \/ NavbarRendered /\ to = "/"                               \* Navbar.jsx line 13
  \/ NavbarRendered /\ user # None /\ to = "/dashboard"       \* Navbar.jsx line 23
  \/ NavbarRendered /\ user = None /\ to = "/pricing"         \* Navbar.jsx line 36
  \/ View = "Landing" /\ user # None /\ to = "/dashboard"     \* Landing.jsx line 26
  \/ View = "Dashboard" /\ to \in {"/pricing", "/editor"}     \* Dashboard.jsx lines 46-57

\* react-router navigation to a pathname: the fragment is dropped
ClickLink(to) ==
  /\ Interactive
  /\ LinkRendered(to)
  /\ <<to, <<>>>> # <<path, hash>>
  /\ path' = to
  /\ hash' = <<>>
  /\ toast' = "none"
  /\ UNCHANGED <<editorKind, leaving, user, loading, meReq, logoutInFlight,
                 checkoutInFlight, cbReq, cbOutcome, exchangeSent, cbEffects,
                 logoutEffects>>
  /\ Keep

\* part_002 line 17: <Navigate to="/" replace /> rendered by ProtectedRoute
ProtectedRedirect ==
  /\ View = "Navigate"
  /\ path' = "/"
  /\ hash' = <<>>
  /\ toast' = "none"
  /\ UNCHANGED <<editorKind, leaving, user, loading, meReq, logoutInFlight,
                 checkoutInFlight, cbReq, cbOutcome, exchangeSent, cbEffects,
                 logoutEffects>>
  /\ Keep

\* ------------------------------------------------- AuthCallback (part_000)
\* response bodies of GET /api/auth/session-data
ExchangeBodies == {[user |-> u] : u \in Users}

\* lines 11-39: one run of the effect (the first after mount, or a re-run)
CallbackEffectNoFlag ==
  /\ View = "AuthCallback"
  /\ effectRuns < MaxEffectRuns
  /\ LET sessionId == SessionIdOf(hash)
     IN IF SessionIdMissing(sessionId)
        THEN /\ path' = "/"
             /\ hash' = <<>>
             /\ cbOutcome' = "nosession"
             /\ cbEffects' = Append(cbEffects, "navigate:/")
             /\ UNCHANGED <<cbReq, exchangeSent>>
        ELSE /\ cbReq' = sessionId
             /\ exchangeSent' = exchangeSent + 1
             /\ UNCHANGED <<path, hash, cbOutcome, cbEffects>>
  /\ toast' = "none"
  /\ UNCHANGED <<editorKind, leaving, user, loading, meReq, logoutInFlight,
                 checkoutInFlight, logoutEffects>>
  /\ Reconcile(editor, readers, genLive, genStale, dash, dashFetch, TRUE, effectRuns + 1)
CallbackEffectNoIdCheck ==
  /\ View = "AuthCallback"
  /\ effectRuns < MaxEffectRuns
  /\ IF hasProcessed
     THEN UNCHANGED <<path, hash, cbReq, cbOutcome, exchangeSent, cbEffects>>
     ELSE /\ cbReq' = Some(<<>>)
          /\ exchangeSent' = exchangeSent + 1
          /\ UNCHANGED <<path, hash, cbOutcome, cbEffects>>
  /\ toast' = "none"
  /\ UNCHANGED <<editorKind, leaving, user, loading, meReq, logoutInFlight,
                 checkoutInFlight, logoutEffects>>
  /\ Reconcile(editor, readers, genLive, genStale, dash, dashFetch, TRUE, effectRuns + 1)
CallbackEffect ==
  /\ View = "AuthCallback"
  /\ effectRuns < MaxEffectRuns
  /\ IF hasProcessed
     THEN UNCHANGED <<path, hash, cbReq, cbOutcome, exchangeSent, cbEffects>>
     ELSE LET sessionId == SessionIdOf(hash)
          IN IF SessionIdMissing(sessionId)
             THEN /\ path' = "/"
                  /\ hash' = <<>>
                  /\ cbOutcome' = "nosession"
                  /\ cbEffects' = Append(cbEffects, "navigate:/")
                  /\ UNCHANGED <<cbReq, exchangeSent>>
             ELSE /\ cbReq' = sessionId
                  /\ exchangeSent' = exchangeSent + 1
                  /\ UNCHANGED <<path, hash, cbOutcome, cbEffects>>
  /\ toast' = "none"
  /\ UNCHANGED <<editorKind, leaving, user, loading, meReq, logoutInFlight,
                 checkoutInFlight, logoutEffects>>
  /\ Reconcile(editor, readers, genLive, genStale, dash, dashFetch, TRUE, effectRuns + 1)

\* lines 25-31: the exchange succeeds with the response body `data`
ProcessAuthOkNavigateFirst(data) ==
  /\ cbReq # None
  /\ cbReq' = None
  /\ cbOutcome' = "ok"
  /\ user' = Some(data.user)
  /\ path' = "/dashboard"
  /\ hash' = <<>>
  /\ cbEffects' = cbEffects \o <<"navigate:/dashboard", "setUser">>
  /\ toast' = "none"
  /\ UNCHANGED <<editorKind, leaving, loading, meReq, logoutInFlight, checkoutInFlight,
                 exchangeSent, logoutEffects>>
  /\ Keep
ProcessAuthOkThenHome(data) ==
  /\ cbReq # None
  /\ cbReq' = None
  /\ cbOutcome' = "ok"
  /\ user' = Some(data.user)
  /\ path' = "/"
  /\ hash' = <<>>
  /\ cbEffects' = cbEffects \o <<"setUser", "navigate:/dashboard", "navigate:/">>
  /\ toast' = "none"
  /\ UNCHANGED <<editorKind, leaving, loading, meReq, logoutInFlight, checkoutInFlight,
                 exchangeSent, logoutEffects>>
  /\ Keep
ProcessAuthOk(data) ==
  /\ cbReq # None
  /\ cbReq' = None
  /\ cbOutcome' = "ok"
  /\ user' = Some(data.user)
  /\ path' = "/dashboard"
  /\ hash' = <<>>
  /\ cbEffects' = cbEffects \o <<"setUser", "navigate:/dashboard">>
  /\ toast' = "none"
  /\ UNCHANGED <<editorKind, leaving, loading, meReq, logoutInFlight, checkoutInFlight,
                 exchangeSent, logoutEffects>>
  /\ Keep

\* lines 32-35: the exchange fails
ProcessAuthFailClearsUser ==
  /\ cbReq # None
  /\ cbReq' = None
  /\ cbOutcome' = "failed"
  /\ user' = None
  /\ path' = "/"
  /\ hash' = <<>>
  /\ cbEffects' = cbEffects \o <<"setUser:null", "navigate:/">>
  /\ toast' = "none"
  /\ UNCHANGED <<editorKind, leaving, loading, meReq, logoutInFlight, checkoutInFlight,
                 exchangeSent, logoutEffects>>
  /\ Keep
ProcessAuthFailRetries ==
  /\ cbReq # None
  /\ cbReq' = cbReq
  /\ exchangeSent' = exchangeSent + 1
  /\ cbOutcome' = "failed"
  /\ toast' = "none"
  /\ UNCHANGED <<editorKind, path, hash, leaving, user, loading, meReq, logoutInFlight,
                 checkoutInFlight, cbEffects, logoutEffects>>
  /\ Keep
ProcessAuthFail ==
  /\ cbReq # None
  /\ cbReq' = None
  /\ cbOutcome' = "failed"
  /\ path' = "/"
  /\ hash' = <<>>
  /\ cbEffects' = Append(cbEffects, "navigate:/")
  /\ toast' = "none"
  /\ UNCHANGED <<editorKind, leaving, user, loading, meReq, logoutInFlight,
                 checkoutInFlight, exchangeSent, logoutEffects>>
  /\ Keep

\* ------------------------------------ Editor (Editor.jsx, part_001), form
Descriptions == {"", "a description"}
Slots == {"subject", "reference"}

\* Editor.jsx line 59, part_001: onChange of the description input
SetDescription(d) ==
  /\ Interactive
  /\ View = "Editor"
  /\ d # editor.description
  /\ editor' = [editor EXCEPT !.description = d]
  /\ toast' = "none"
  /\ UNCHANGED <<editorKind, path, hash, leaving, user, loading, meReq, logoutInFlight,
                 checkoutInFlight, hasProcessed, cbReq, cbOutcome, effectRuns,
                 exchangeSent, readers, genLive, genStale, dash, dashFetch, cbEffects,
                 logoutEffects>>

\* part_001 lines 26-36: a file is chosen for a slot; its read is started
HandleImageUpload(slot, file) ==
  /\ Interactive
  /\ View = "Editor"
  /\ editorKind = "image"
  /\ editor' = IF slot = "subject" THEN [editor EXCEPT !.subjectImage = file]
               ELSE [editor EXCEPT !.referenceImage = file]
  /\ readers' = readers \cup {[slot |-> slot, file |-> file]}
  /\ toast' = "none"
  /\ UNCHANGED <<editorKind, path, hash, leaving, user, loading, meReq, logoutInFlight,
                 checkoutInFlight, hasProcessed, cbReq, cbOutcome, effectRuns,
                 exchangeSent, genLive, genStale, dash, dashFetch, cbEffects,
                 logoutEffects>>

\* part_001 lines 31-33: reader.onloadend stores the data URL as the slot's preview
ReaderLoadEnd(r) ==
  /\ r \in readers
  /\ readers' = readers \ {r}
  /\ editor' = IF r.slot = "subject" THEN [editor EXCEPT !.subjectPreview = DataUrlOf(r.file)]
               ELSE [editor EXCEPT !.referencePreview = DataUrlOf(r.file)]
  /\ toast' = "none"
  /\ UNCHANGED <<editorKind, path, hash, leaving, user, loading, meReq, logoutInFlight,
                 checkoutInFlight, hasProcessed, cbReq, cbOutcome, effectRuns,
                 exchangeSent, genLive, genStale, dash, dashFetch, cbEffects,
                 logoutEffects>>

\* -------------------------- Editor (Editor.jsx, part_001), handleGenerate
\* response bodies of POST /api/generate
GenerateBodies == {[image |-> i, credits |-> c] : i \in Images, c \in 0..MaxCredits}

\* {...prev}: the own properties of prev, none for null
Spread(prev) ==
  IF prev = None THEN [id |-> Undefined, name |-> Undefined, credits |-> 0]
  ELSE prev[1]

\* setUser(prev => ({ ...prev, credits: data.credits }))
DecrementCredits(prev, data) == Some([Spread(prev) EXCEPT !.credits = prev[1].credits - 1])
WithCredits(prev, data) == Some([Spread(prev) EXCEPT !.credits = data.credits])

\* Editor.jsx line 19, part_001 line 39: the form is incomplete
FormIncomplete ==
  IF editorKind = "text" THEN editor.description = ""
  ELSE editor.description = "" \/ editor.subjectImage = Null \/ editor.referenceImage = Null

\* Editor.jsx lines 30-33, part_001 lines 50-56: the request body
Payload ==
  IF editorKind = "text" THEN [description |-> editor.description,
                               subject_image |-> Null, reference_image |-> Null]
  ELSE [description |-> editor.description,
        subject_image |-> editor.subjectPreview,
        reference_image |-> editor.referencePreview]

\* Editor.jsx lines 18-34, part_001 lines 38-62: a click on the enabled button
HandleGenerateIgnoresDisabled ==
  /\ Interactive
  /\ View = "Editor"
  /\ genStale + 1 <= MaxGenInFlight
  /\ IF FormIncomplete
     THEN /\ toast' = IF editorKind = "text" THEN "Please enter some text description"
                      ELSE "Please fill in description and upload both images"
          /\ UNCHANGED <<editor, genLive>>
     ELSE IF user[1].credits <= 0
     THEN /\ toast' = "Not enough credits!"
          /\ UNCHANGED <<editor, genLive>>
     ELSE /\ editor' = [editor EXCEPT !.loading = TRUE]
          /\ genLive' = Some(Payload)
          /\ toast' = "none"
  /\ UNCHANGED <<editorKind, path, hash, leaving, user, loading, meReq, logoutInFlight,
                 checkoutInFlight, hasProcessed, cbReq, cbOutcome, effectRuns,
                 exchangeSent, readers, genStale, dash, dashFetch, cbEffects,
                 logoutEffects>>
HandleGenerateNoCreditCheck ==
  /\ Interactive
  /\ View = "Editor"
  /\ ~editor.loading
  /\ genStale + 1 <= MaxGenInFlight
  /\ IF FormIncomplete
     THEN /\ toast' = IF editorKind = "text" THEN "Please enter some text description"
                      ELSE "Please fill in description and upload both images"
          /\ UNCHANGED <<editor, genLive>>
     ELSE /\ editor' = [editor EXCEPT !.loading = TRUE]
          /\ genLive' = Some(Payload)
          /\ toast' = "none"
  /\ UNCHANGED <<editorKind, path, hash, leaving, user, loading, meReq, logoutInFlight,
                 checkoutInFlight, hasProcessed, cbReq, cbOutcome, effectRuns,
                 exchangeSent, readers, genStale, dash, dashFetch, cbEffects,
                 logoutEffects>>
HandleGenerate ==
  /\ Interactive
  /\ View = "Editor"
  /\ ~editor.loading
  /\ genStale + 1 <= MaxGenInFlight
  /\ IF FormIncomplete
     THEN /\ toast' = IF editorKind = "text" THEN "Please enter some text description"
                      ELSE "Please fill in description and upload both images"
          /\ UNCHANGED <<editor, genLive>>
     ELSE IF user[1].credits <= 0
     THEN /\ toast' = "Not enough credits!"
          /\ UNCHANGED <<editor, genLive>>
     ELSE /\ editor' = [editor EXCEPT !.loading = TRUE]
          /\ genLive' = Some(Payload)
          /\ toast' = "none"
  /\ UNCHANGED <<editorKind, path, hash, leaving, user, loading, meReq, logoutInFlight,
                 checkoutInFlight, hasProcessed, cbReq, cbOutcome, effectRuns,
                 exchangeSent, readers, genStale, dash, dashFetch, cbEffects,
                 logoutEffects>>

\* Editor.jsx lines 35-37, 41-43, part_001 lines 63-65, 69-71: the request of the
\* mounted Editor succeeds with the response body `data`
GenerateOkDecrement(data) ==
  /\ genLive # None
  /\ user' = DecrementCredits(user, data)
  /\ toast' = "Thumbnail generated!"
  /\ UNCHANGED <<editorKind, path, hash, leaving, loading, meReq, logoutInFlight,
                 checkoutInFlight, cbReq, cbOutcome, exchangeSent, cbEffects,
                 logoutEffects>>
  /\ Reconcile([editor EXCEPT !.generatedImage = data.image, !.loading = FALSE],
               readers, None, genStale, dash, dashFetch, hasProcessed, effectRuns)
GenerateOk(data) ==
  /\ genLive # None
  /\ user' = WithCredits(user, data)
  /\ toast' = "Thumbnail generated!"
  /\ UNCHANGED <<editorKind, path, hash, leaving, loading, meReq, logoutInFlight,
                 checkoutInFlight, cbReq, cbOutcome, exchangeSent, cbEffects,
                 logoutEffects>>
  /\ Reconcile([editor EXCEPT !.generatedImage = data.image, !.loading = FALSE],
               readers, None, genStale, dash, dashFetch, hasProcessed, effectRuns)

\* Editor.jsx lines 38-43, part_001 lines 66-71: the request of the mounted Editor fails
GenerateFailClearsImage ==
  /\ genLive # None
  /\ genLive' = None
  /\ editor' = [editor EXCEPT !.generatedImage = Null, !.loading = FALSE]
  /\ toast' = "Generation failed. Try again."
  /\ UNCHANGED <<editorKind, path, hash, leaving, user, loading, meReq, logoutInFlight,
                 checkoutInFlight, hasProcessed, cbReq, cbOutcome, effectRuns,
                 exchangeSent, readers, genStale, dash, dashFetch, cbEffects,
                 logoutEffects>>
GenerateFail ==
  /\ genLive # None
  /\ genLive' = None
  /\ editor' = [editor EXCEPT !.loading = FALSE]
  /\ toast' = "Generation failed. Try again."
  /\ UNCHANGED <<editorKind, path, hash, leaving, user, loading, meReq, logoutInFlight,
                 checkoutInFlight, hasProcessed, cbReq, cbOutcome, effectRuns,
                 exchangeSent, readers, genStale, dash, dashFetch, cbEffects,
                 logoutEffects>>

\* the same continuations for a request whose Editor has been unmounted: the
\* component's own setters do nothing, setUser and toast still act
OrphanGenerateOk(data) ==
  /\ genStale > 0
  /\ user' = WithCredits(user, data)
  /\ toast' = "Thumbnail generated!"
  /\ UNCHANGED <<editorKind, path, hash, leaving, loading, meReq, logoutInFlight,
                 checkoutInFlight, cbReq, cbOutcome, exchangeSent, cbEffects,
                 logoutEffects>>
  /\ Reconcile(editor, readers, genLive, genStale - 1, dash, dashFetch, hasProcessed, effectRuns)

OrphanGenerateFail ==
  /\ genStale > 0
  /\ genStale' = genStale - 1
  /\ toast' = "Generation failed. Try again."
  /\ UNCHANGED <<editorKind, path, hash, leaving, user, loading, meReq, logoutInFlight,
                 checkoutInFlight, hasProcessed, cbReq, cbOutcome, effectRuns,
                 exchangeSent, editor, readers, genLive, dash, dashFetch, cbEffects,
                 logoutEffects>>

\* ------------------------------------------------ Dashboard (Dashboard.jsx)
\* lines 14-19, 28-29: the mount effect sends GET /api/thumbnails
FetchThumbnails ==
  /\ View = "Dashboard"
  /\ dashFetch = "none"
  /\ dashFetch' = "pending"
  /\ toast' = "none"
  /\ UNCHANGED <<editorKind, path, hash, leaving, user, loading, meReq, logoutInFlight,
                 checkoutInFlight, hasProcessed, cbReq, cbOutcome, effectRuns,
                 exchangeSent, editor, readers, genLive, genStale, dash, cbEffects,
                 logoutEffects>>

\* lines 17-20, 23-25: the request succeeds with the list `data`
FetchThumbnailsOk(data) ==
  /\ dashFetch = "pending"
  /\ dashFetch' = "done"
  /\ dash' = [thumbnails |-> data, loading |-> FALSE]
  /\ toast' = "none"
  /\ UNCHANGED <<editorKind, path, hash, leaving, user, loading, meReq, logoutInFlight,
                 checkoutInFlight, hasProcessed, cbReq, cbOutcome, effectRuns,
                 exchangeSent, editor, readers, genLive, genStale, cbEffects,
                 logoutEffects>>

\* lines 21-25: the request fails
FetchThumbnailsFailKeepsLoading ==
  /\ dashFetch = "pending"
  /\ dashFetch' = "done"
  /\ dash' = dash
  /\ toast' = "none"
  /\ UNCHANGED <<editorKind, path, hash, leaving, user, loading, meReq, logoutInFlight,
                 checkoutInFlight, hasProcessed, cbReq, cbOutcome, effectRuns,
                 exchangeSent, editor, readers, genLive, genStale, cbEffects,
                 logoutEffects>>
FetchThumbnailsFail ==
  /\ dashFetch = "pending"
  /\ dashFetch' = "done"
  /\ dash' = [dash EXCEPT !.loading = FALSE]
  /\ toast' = "none"
  /\ UNCHANGED <<editorKind, path, hash, leaving, user, loading, meReq, logoutInFlight,
                 checkoutInFlight, hasProcessed, cbReq, cbOutcome, effectRuns,
                 exchangeSent, editor, readers, genLive, genStale, cbEffects,
                 logoutEffects>>

\* ---------------------------------------------------- Pricing (Pricing.jsx)
\* response bodies of POST /api/create-checkout-session
CheckoutBodies == {[url |-> "https://checkout"]}

\* lines 11-22 (AuthContext.jsx lines 62-73): a click on a purchase button
HandleSubscribeNoLoginCheck ==
  /\ Interactive
  /\ View = "Pricing"
  /\ checkoutInFlight < MaxCheckoutInFlight
  /\ checkoutInFlight' = checkoutInFlight + 1
  /\ toast' = "none"
  /\ UNCHANGED <<editorKind, path, hash, leaving, user, loading, meReq, logoutInFlight,
                 hasProcessed, cbReq, cbOutcome, effectRuns, exchangeSent, editor, readers,
                 genLive, genStale, dash, dashFetch, cbEffects, logoutEffects>>
HandleSubscribe ==
  /\ Interactive
  /\ View = "Pricing"
  /\ IF user = None
     THEN /\ leaving' = "idp"
          /\ UNCHANGED checkoutInFlight
     ELSE /\ checkoutInFlight < MaxCheckoutInFlight
          /\ checkoutInFlight' = checkoutInFlight + 1
          /\ UNCHANGED leaving
  /\ toast' = "none"
  /\ UNCHANGED <<editorKind, path, hash, user, loading, meReq, logoutInFlight, hasProcessed,
                 cbReq, cbOutcome, effectRuns, exchangeSent, editor, readers, genLive,
                 genStale, dash, dashFetch, cbEffects, logoutEffects>>

\* lines 18-23: the request succeeds; the browser is sent to the returned URL
CheckoutOk(data) ==
  /\ checkoutInFlight > 0
  /\ checkoutInFlight' = checkoutInFlight - 1
  /\ leaving' = data.url
  /\ toast' = "none"
  /\ UNCHANGED <<editorKind, path, hash, user, loading, meReq, logoutInFlight, hasProcessed,
                 cbReq, cbOutcome, effectRuns, exchangeSent, editor, readers, genLive,
                 genStale, dash, dashFetch, cbEffects, logoutEffects>>

\* lines 24-26: the request fails
CheckoutFailSilent ==
  /\ checkoutInFlight > 0
  /\ checkoutInFlight' = checkoutInFlight - 1
  /\ toast' = "none"
  /\ UNCHANGED <<editorKind, path, hash, leaving, user, loading, meReq, logoutInFlight,
                 hasProcessed, cbReq, cbOutcome, effectRuns, exchangeSent, editor, readers,
                 genLive, genStale, dash, dashFetch, cbEffects, logoutEffects>>
CheckoutFail ==
  /\ checkoutInFlight > 0
  /\ checkoutInFlight' = checkoutInFlight - 1
  /\ toast' = "Failed to start checkout"
  /\ UNCHANGED <<editorKind, path, hash, leaving, user, loading, meReq, logoutInFlight,
                 hasProcessed, cbReq, cbOutcome, effectRuns, exchangeSent, editor, readers,
                 genLive, genStale, dash, dashFetch, cbEffects, logoutEffects>>

\* ------------------------------------------------------------ specification
Next ==
  \/ PageLoad
  \/ CheckAuthEffect
  \/ \E data \in Users : CheckAuthOk(data)
  \/ CheckAuthFail
  \/ Login
  \/ LogoutClick
  \/ LogoutOk
  \/ LogoutFail
  \/ \E to \in Paths : ClickLink(to)
  \/ ProtectedRedirect
  \/ CallbackEffect
  \/ \E data \in ExchangeBodies : ProcessAuthOk(data)
  \/ ProcessAuthFail
  \/ \E d \in Descriptions : SetDescription(d)
  \/ \E slot \in Slots, file \in Files : HandleImageUpload(slot, file)
  \/ \E r \in readers : ReaderLoadEnd(r)
  \/ HandleGenerate
  \/ \E data \in GenerateBodies : GenerateOk(data)
  \/ GenerateFail
  \/ \E data \in GenerateBodies : OrphanGenerateOk(data)
  \/ OrphanGenerateFail
  \/ FetchThumbnails
  \/ \E data \in ThumbnailLists : FetchThumbnailsOk(data)
  \/ FetchThumbnailsFail
  \/ HandleSubscribe
  \/ \E data \in CheckoutBodies : CheckoutOk(data)
  \/ CheckoutFail

Spec == Init /\ [][Next]_vars

\* The image-based Editor alone, with two files to choose from for each slot: a
\* signed-in user has loaded /editor and session bootstrap has succeeded.
EditorPageInit ==
  /\ editorKind = "image"
  /\ path = "/editor"
  /\ hash = <<>>
  /\ leaving = "none"
  /\ user \in {Some(u) : u \in Users}
  /\ loading = FALSE
  /\ meReq = "done"
  /\ logoutInFlight = 0
  /\ checkoutInFlight = 0
  /\ hasProcessed = FALSE
  /\ cbReq = None
  /\ cbOutcome = "none"
  /\ effectRuns = 0
  /\ exchangeSent = 0
  /\ editor = EditorInit
  /\ readers = {}
  /\ genLive = None
  /\ genStale = 0
  /\ dash = DashInit
  /\ dashFetch = "none"
  /\ toast = "none"
  /\ cbEffects = <<>>
  /\ logoutEffects = <<>>

EditorNext ==
  \/ \E d \in Descriptions : SetDescription(d)
  \/ \E slot \in Slots, file \in MoreFiles : HandleImageUpload(slot, file)
  \/ \E r \in readers : ReaderLoadEnd(r)
  \/ HandleGenerate
  \/ \E data \in GenerateBodies : GenerateOk(data)
  \/ GenerateFail

EditorSpec == EditorPageInit /\ [][EditorNext]_vars

\* "If the backend answers": a request of session bootstrap that is sent is answered,
\* and the mount effect that sends it runs (React runs the effects of a commit).
FairSpec ==
  /\ Spec
  /\ WF_vars(CheckAuthEffect)
  /\ WF_vars((\E data \in Users : CheckAuthOk(data)) \/ CheckAuthFail)

\* ------------------------------------------------------------------ claims
\* the range of a sequence
Range(seq) == {seq[i] : i \in 1..Len(seq)}

\* C1: in a page load at most one session-exchange request is sent, however often
\* the callback handler's effect runs, and a successful exchange is the outcome of
\* that one request, with none left in flight.
C1_AtMostOneExchange ==
  /\ exchangeSent <= 1
  /\ cbReq # None => exchangeSent = 1 /\ cbOutcome = "none"
  /\ cbOutcome = "ok" => exchangeSent = 1 /\ cbReq = None

\* the effect has run again while the one request is in flight
C1_Witness == effectRuns >= 2 /\ exchangeSent = 1 /\ cbReq # None /\ hasProcessed

\* C2: a run of the callback handler that finds no session identifier in the
\* fragment (absent or empty) navigates home, sends no session-exchange request
\* and does not write the user state.
C2_NoSessionRedirectsHome ==
  /\ [](cbOutcome = "nosession" => exchangeSent = 0 /\ cbReq = None)
  /\ [][(CallbackEffect /\ ~hasProcessed /\ SessionIdMissing(SessionIdOf(hash)))
          => /\ path' = "/"
             /\ hash' = <<>>
             /\ cbOutcome' = "nosession"
             /\ cbEffects' = <<"navigate:/">>
             /\ exchangeSent' = exchangeSent
             /\ cbReq' = cbReq
             /\ user' = user]_vars

\* the handler ran on a fragment without an identifier and the page is home
C2_Witness == cbOutcome = "nosession" /\ path = "/" /\ exchangeSent = 0 /\ meReq = "idle"

\* C3: a successful exchange stores the returned user record and navigates to
\* /dashboard, the store first; the handler stores a user and navigates to
\* /dashboard only on success.
C3_SuccessStoresThenNavigates ==
  /\ [](cbOutcome = "ok" <=> cbEffects = <<"setUser", "navigate:/dashboard">>)
  /\ []((Range(cbEffects) \cap {"setUser", "navigate:/dashboard"} # {}) => cbOutcome = "ok")
  /\ [][\A data \in ExchangeBodies :
          ProcessAuthOk(data) => /\ user' = Some(data.user)
                                 /\ path' = "/dashboard"
                                 /\ hash' = <<>>]_vars

\* the exchange has succeeded: the user is stored and the page is the dashboard route
C3_Witness ==
  /\ cbOutcome = "ok"
  /\ path = "/dashboard"
  /\ user \in {Some(u) : u \in Users}
  /\ meReq = "pending"

\* C4 as claimed: a failed exchange leaves the user state as it was, navigates home,
\* and the user ends in the unauthenticated home view.
C4_FailureEndsUnauthenticated ==
  [][ProcessAuthFail => /\ user' = user
                        /\ path' = "/"
                        /\ user' = None]_vars

\* C4 as amended: a failed exchange leaves the user state as it was, whatever it
\* was, and navigates home; the home view is the unauthenticated one exactly when
\* no user is set.
C4_FailureKeepsUserGoesHome ==
  /\ [](cbOutcome = "failed" => cbEffects = <<"navigate:/">> /\ cbReq = None)
  /\ [][ProcessAuthFail => /\ user' = user
                           /\ path' = "/"
                           /\ hash' = <<>>
                           /\ AppContent(path', hash', loading', user') = "Landing"]_vars

\* a failed exchange has left a user that session bootstrap had set, at home
C4_Witness ==
  /\ cbOutcome = "failed"
  /\ path = "/"
  /\ user # None
  /\ effectRuns = 0
  /\ logoutInFlight = 0

\* C5: the handler goes from idle to exchanging to succeeded or failed and stops:
\* a request is in flight only before any outcome, and once there is an outcome it
\* stays, nothing is sent and nothing is in flight, until the document is replaced.
C5_LinearNoRetry ==
  /\ [](cbOutcome # "none" => cbReq = None)
  /\ [][(cbOutcome # "none" /\ ~PageLoad)
          => /\ cbOutcome' = cbOutcome
             /\ cbReq' = None
             /\ exchangeSent' = exchangeSent]_vars

\* after a failed exchange the user went on to use the application in that page load
C5_Witness == cbOutcome = "failed" /\ exchangeSent = 1 /\ View = "Editor"

\* C6: a generation request that fails changes neither the displayed image nor the
\* user (so not the credit balance); the Editor that sent it only gets its loading
\* flag back to false, and the error notice is raised.
C6_FailedGenerationChangesNothing ==
  /\ [](genLive # None => View = "Editor" /\ editor.loading)
  /\ [][GenerateFail => /\ editor' = [editor EXCEPT !.loading = FALSE]
                        /\ user' = user
                        /\ toast' = "Generation failed. Try again."]_vars
  /\ [][OrphanGenerateFail => /\ editor' = editor
                              /\ user' = user
                              /\ toast' = "Generation failed. Try again."]_vars

\* a request failed in an Editor that still shows the image of an earlier success
C6_Witness ==
  /\ View = "Editor"
  /\ editor.generatedImage \in Images
  /\ ~editor.loading
  /\ genLive = None
  /\ genStale = 0
  /\ toast = "Generation failed. Try again."

\* C7 as claimed, for a user who is logged in: after every successful generation
\* call the user's credits are the returned credits, the other fields of the user
\* are unchanged, and the image the Editor displays is the returned image.
C7_EverySuccessShowsImage ==
  [][\A data \in GenerateBodies :
       (user # None /\ (GenerateOk(data) \/ OrphanGenerateOk(data)))
         => /\ user' = Some([user[1] EXCEPT !.credits = data.credits])
            /\ AppContent(path', hash', loading', user') = "Editor"
                 => editor'.generatedImage = data.image]_vars

\* C7 as amended: the credits are the returned credits and the other fields of the
\* user are unchanged after every successful call; the returned image is displayed
\* by the Editor that sent the request, if it is still mounted.
C7_SuccessSetsReturnedCredits ==
  /\ [][\A data \in GenerateBodies :
          GenerateOk(data)
            => /\ user # None
               /\ user' = Some([user[1] EXCEPT !.credits = data.credits])
               /\ editor' = [editor EXCEPT !.generatedImage = data.image, !.loading = FALSE]]_vars
  /\ [][\A data \in GenerateBodies :
          OrphanGenerateOk(data)
            => /\ user' # None
               /\ user'[1].credits = data.credits
               /\ user # None => (user'[1].id = user[1].id /\ user'[1].name = user[1].name)]_vars

\* a success has been shown with the highest balance, which no decrement yields
C7_Witness ==
  /\ View = "Editor"
  /\ toast = "Thumbnail generated!"
  /\ editor.generatedImage \in Images
  /\ user = Some([id |-> "u1", name |-> UserNameOf("u1"), credits |-> MaxCredits])

\* C8: logout writes the user state only when the backend has acknowledged: sending
\* the request changes nothing, the acknowledgment sets the user to null and then
\* starts the navigation to /, a failure leaves the user and the location alone.
C8_LogoutClearsAfterAck ==
  /\ [](logoutEffects # <<>> => logoutEffects = <<"setUser:null", "href:/">>)
  /\ [][LogoutClick => /\ user' = user
                       /\ leaving' = leaving
                       /\ logoutEffects' = logoutEffects]_vars
  /\ [][LogoutOk => /\ user' = None
                    /\ leaving' = "/"
                    /\ logoutEffects' = <<"setUser:null", "href:/">>]_vars
  /\ [][LogoutFail => /\ user' = user
                      /\ leaving' = leaving
                      /\ path' = path
                      /\ hash' = hash]_vars

\* the logout has been acknowledged: the user is null and the page is leaving for /
C8_Witness ==
  /\ logoutEffects = <<"setUser:null", "href:/">>
  /\ user = None
  /\ leaving = "/"
  /\ logoutInFlight = 0

\* C9: in a page load the loading flag starts true with GET /api/auth/me unsent; the
\* request is sent once; its success sets the user to the returned record, its
\* failure sets it to null, both set loading to false; loading, once false, stays
\* false; and if the backend answers, loading becomes false unless the page is left.
C9_BootstrapSettlesLoading ==
  /\ (loading = TRUE /\ meReq = "idle")
  /\ [](loading <=> meReq # "done")
  /\ [][PageLoad => loading' /\ meReq' = "idle"]_vars
  /\ [][~PageLoad => /\ meReq = "pending" => meReq' \in {"pending", "done"}
                     /\ meReq = "done" => meReq' = "done"
                     /\ ~loading => ~loading']_vars
  /\ [][\A data \in Users : CheckAuthOk(data) => user' = Some(data) /\ ~loading']_vars
  /\ [][CheckAuthFail => user' = None /\ ~loading']_vars
  /\ loading ~> (~loading \/ leaving # "none")

\* bootstrap has finished with a user
C9_Witness == meReq = "done" /\ ~loading /\ user # None /\ cbOutcome = "none"

\* C10: Dashboard and Editor are rendered, and the history request exists, only
\* with loading false and a non-null user; on a protected route the placeholder is
\* shown and no redirect is possible while loading, and with loading false and a
\* null user the redirect to / is what is rendered.
Protected == path \in {"/dashboard", "/editor"} /\ ~HashIncludesMarker(hash)
C10_BootstrapGatesRoutes ==
  /\ [](View \in {"Dashboard", "Editor"} => ~loading /\ user # None)
  /\ [](dashFetch # "none" => View = "Dashboard" /\ ~loading /\ user # None)
  /\ []((genLive # None \/ editor # EditorInit \/ readers # {}) => View = "Editor")
  /\ []((Protected /\ loading) => View = "Loading" /\ ~ENABLED ProtectedRedirect)
  /\ []((Protected /\ ~loading /\ user = None) => View = "Navigate" /\ ENABLED ProtectedRedirect)
  /\ []((Protected /\ ~loading /\ user # None) => View = (IF path = "/dashboard" THEN "Dashboard" ELSE "Editor"))
  /\ [][ProtectedRedirect => ~loading /\ user = None /\ path' = "/"]_vars

\* the history request is in flight: the Dashboard is rendered for a user
C10_Witness == View = "Dashboard" /\ dashFetch = "pending" /\ user # None /\ ~loading

\* C11: an Editor view has a generation request in flight exactly while its
\* loading flag is true; while it is in flight the disabled button takes no click,
\* so a request is sent only by an Editor that has none in flight, and at most
\* one request of an Editor view is in flight.
C11_OneGenerationInFlight ==
  /\ [](genLive # None <=> (View = "Editor" /\ editor.loading))
  /\ [](genLive # None => ~ENABLED HandleGenerate)
  /\ [][(HandleGenerate /\ genLive' # None) => (genLive = None /\ ~editor.loading)]_vars
  /\ [][(genLive # None /\ genLive' # None) => genLive' = genLive]_vars

\* a request is in flight and the user has edited the form since it was sent
C11_Witness ==
  /\ View = "Editor"
  /\ editor.loading
  /\ genLive # None
  /\ genLive[1].description # editor.description

\* C12 as claimed: every failed backend call (auth/me, logout, session-data,
\* create-checkout-session, generate, thumbnails) raises a user-facing notice.
C12_EveryFailureRaisesNotice ==
  [][(CheckAuthFail \/ LogoutFail \/ ProcessAuthFail \/ CheckoutFail
        \/ GenerateFail \/ OrphanGenerateFail \/ FetchThumbnailsFail)
       => toast' # "none"]_vars

\* C12 as amended: every failed backend call is caught and ends its request; a
\* failed generate or create-checkout-session call raises its error notice; a failed
\* auth/me, logout, session-data or thumbnails call raises none: auth/me sets the
\* user to null and loading to false, logout changes nothing else, session-data
\* navigates home, thumbnails sets the Dashboard's loading flag to false.
C12_FailuresCaughtSomeSilently ==
  /\ [][CheckAuthFail => /\ toast' = "none"
                         /\ meReq' = "done"
                         /\ user' = None
                         /\ ~loading']_vars
  /\ [][LogoutFail => /\ toast' = "none"
                      /\ logoutInFlight' = logoutInFlight - 1
                      /\ user' = user
                      /\ leaving' = leaving]_vars
  /\ [][ProcessAuthFail => /\ toast' = "none"
                           /\ cbReq' = None
                           /\ path' = "/"]_vars
  /\ [][FetchThumbnailsFail => /\ toast' = "none"
                               /\ dashFetch' = "done"
                               /\ ~dash'.loading]_vars
  /\ [][GenerateFail => /\ toast' = "Generation failed. Try again."
                        /\ genLive' = None
                        /\ ~editor'.loading]_vars
  /\ [][OrphanGenerateFail => /\ toast' = "Generation failed. Try again."
                              /\ genStale' = genStale - 1]_vars
  /\ [][CheckoutFail => /\ toast' = "Failed to start checkout"
                        /\ checkoutInFlight' = checkoutInFlight - 1
                        /\ leaving' = leaving]_vars

\* a checkout request of a signed-in user has failed on the pricing page
C12_Witness ==
  /\ View = "Pricing"
  /\ user # None
  /\ toast = "Failed to start checkout"
  /\ checkoutInFlight = 0
  /\ leaving = "none"

\* C13: a click on the generate button whose guards fail (the form is incomplete:
\* no description, or in the image-based editor a missing subject or reference
\* image; or the user's credits are <= 0) sends no request and changes neither the
\* Editor's state nor the user, it only raises a notice; a request is sent only
\* from a complete form with a positive local credit balance.
C13_GuardsBlockGeneration ==
  /\ [][(HandleGenerate /\ (FormIncomplete \/ user[1].credits <= 0))
          => /\ genLive' = genLive
             /\ genStale' = genStale
             /\ editor' = editor
             /\ user' = user
             /\ toast' # "none"]_vars
  /\ [][(HandleGenerate /\ genLive' # None)
          => /\ ~FormIncomplete
             /\ user # None
             /\ user[1].credits > 0
             /\ genLive = None]_vars
  /\ [](genLive # None => genLive[1].description # "")

\* a click with a complete form was refused for lack of credits
C13_Witness ==
  /\ View = "Editor"
  /\ ~FormIncomplete
  /\ user[1].credits = 0
  /\ toast = "Not enough credits!"
  /\ genLive = None
  /\ ~editor.loading

\* C14: a click on a purchase button of the pricing page with no user starts the
\* login redirect and sends no checkout request; with a user it sends the checkout
\* request and starts no navigation; the request's success sends the browser to the
\* returned URL, its failure raises the error notice and navigates nowhere; none of
\* these steps changes the user state.
C14_SubscribeLoginOrCheckout ==
  /\ [][(HandleSubscribe /\ user = None)
          => /\ leaving' = "idp"
             /\ checkoutInFlight' = checkoutInFlight]_vars
  /\ [][(HandleSubscribe /\ user # None)
          => /\ checkoutInFlight' = checkoutInFlight + 1
             /\ leaving' = leaving]_vars
  /\ [][\A data \in CheckoutBodies :
          CheckoutOk(data) => /\ leaving' = data.url
                              /\ toast' = "none"]_vars
  /\ [][CheckoutFail => /\ toast' = "Failed to start checkout"
                        /\ leaving' = leaving
                        /\ path' = path
                        /\ hash' = hash]_vars
  /\ [][(HandleSubscribe \/ (\E data \in CheckoutBodies : CheckoutOk(data)) \/ CheckoutFail)
          => user' = user]_vars

\* the checkout request of a signed-in user succeeded: the browser is leaving for
\* the returned URL
C14_Witness ==
  /\ path = "/pricing"
  /\ user # None
  /\ leaving = "https://checkout"
  /\ checkoutInFlight = 0
  /\ toast = "none"

\* C15: a mounted Dashboard sends its history request once: the mount effect runs
\* only while no request of this mount exists; until the request resolves the list
\* is empty and the loading flag true; a success stores the returned list, a failure
\* keeps the (empty) list, and both set the loading flag to false.
C15_HistoryFetchOncePerMount ==
  /\ [](dashFetch \in {"none", "pending"} => dash = DashInit)
  /\ [](dashFetch = "done" <=> ~dash.loading)
  /\ [](dashFetch # "none" => ~ENABLED FetchThumbnails)
  /\ [][(dashFetch' = "pending" /\ dashFetch # "pending")
          => (FetchThumbnails /\ dashFetch = "none")]_vars
  /\ [][\A data \in ThumbnailLists :
          FetchThumbnailsOk(data) => dash' = [thumbnails |-> data, loading |-> FALSE]]_vars
  /\ [][FetchThumbnailsFail => /\ dash'.thumbnails = dash.thumbnails
                               /\ dash'.thumbnails = <<>>
                               /\ ~dash'.loading]_vars

\* the request of the mounted Dashboard has resolved with a non-empty history
C15_Witness ==
  /\ View = "Dashboard"
  /\ dashFetch = "done"
  /\ dash = [thumbnails |-> <<"thumb1">>, loading |-> FALSE]

\* C16: while the fragment contains 'session_id=' the application renders the
\* callback handler and nothing else, whatever the path: no page, no navbar control
\* and no protected-route redirect exists, and the fragment changes only by the
\* handler navigating away, after which it no longer contains the marker.
C16_MarkerRendersOnlyCallback ==
  /\ [](HashIncludesMarker(hash) => View = "AuthCallback")
  /\ [](HashIncludesMarker(hash)
          => /\ ~ENABLED ProtectedRedirect
             /\ ~ENABLED (\E to \in Paths : ClickLink(to))
             /\ ~ENABLED Login
             /\ ~ENABLED LogoutClick
             /\ ~ENABLED HandleSubscribe
             /\ ~ENABLED HandleGenerate
             /\ ~ENABLED FetchThumbnails)
  /\ [](HashIncludesMarker(hash)
          => /\ editor = EditorInit
             /\ genLive = None
             /\ dash = DashInit
             /\ dashFetch = "none")
  /\ [][HashIncludesMarker(hash)
          => \/ hash' = hash /\ path' = path
             \/ /\ ~HashIncludesMarker(hash')
                /\ \/ CallbackEffect
                   \/ ProcessAuthFail
                   \/ \E data \in ExchangeBodies : ProcessAuthOk(data)]_vars

\* the marker is in the fragment of a protected path, for a visitor whose session
\* bootstrap has failed: the route alone would redirect, the handler is exchanging
C16_Witness ==
  /\ HashIncludesMarker(hash)
  /\ path = "/dashboard"
  /\ ~loading
  /\ user = None
  /\ cbReq # None

\* C17: once the callback exchange has succeeded in a page load, the user state
\* stays non-null until a logout is acknowledged or the document is replaced,
\* whenever the response to GET /api/auth/me arrives.
C17_UserStaysAfterExchange ==
  [][(cbOutcome = "ok" /\ user # None /\ ~LogoutOk /\ ~PageLoad) => user' # None]_vars

\* C18: every generation request in flight from the image-based editor carries
\* non-null subject_image and reference_image data.
C18_PayloadCarriesBothImages ==
  (editorKind = "image" /\ genLive # None)
    => /\ genLive[1].subject_image # Null
       /\ genLive[1].reference_image # Null

\* C19: the user state is always null or a complete user record, one with an
\* identifier and the name that belongs to it, besides the credits.
C19_UserNullOrComplete ==
  \/ user = None
  \/ /\ user[1].id \in UserIds
     /\ user[1].name = UserNameOf(user[1].id)
     /\ user[1].credits \in 0..MaxCredits

\* C20: for each image slot, when no file read of the slot is in progress, the
\* slot is empty or its preview is the data of its stored file, the file selected last.
C20_PreviewMatchesLatestFile ==
  /\ (\A r \in readers : r.slot # "subject")
       => \/ editor.subjectImage = Null /\ editor.subjectPreview = Null
          \/ editor.subjectImage # Null /\ editor.subjectPreview = DataUrlOf(editor.subjectImage)
  /\ (\A r \in readers : r.slot # "reference")
       => \/ editor.referenceImage = Null /\ editor.referencePreview = Null
          \/ editor.referenceImage # Null /\ editor.referencePreview = DataUrlOf(editor.referenceImage)

\* the navigations among the logged side effects of the callback handler
Navigations(seq) == SelectSeq(seq, LAMBDA e : e \in {"navigate:/", "navigate:/dashboard"})

\* C21: in a page load the callback handler navigates exactly once when it ends: to
\* / when the identifier is missing or the exchange fails, to /dashboard when the
\* exchange succeeds, never both and never again; before that it has navigated
\* nowhere and its request is pending; the navigation to /dashboard comes after the
\* user has been set.
C21_ExactlyOneNavigation ==
  /\ [](Len(Navigations(cbEffects)) = (IF cbOutcome = "none" THEN 0 ELSE 1))
  /\ [](cbOutcome \in {"nosession", "failed"} => Navigations(cbEffects) = <<"navigate:/">>)
  /\ [](cbOutcome = "ok" => /\ Navigations(cbEffects) = <<"navigate:/dashboard">>
                           /\ cbEffects[1] = "setUser")
  /\ []((View = "AuthCallback" /\ hasProcessed) => (cbOutcome = "none" /\ cbReq # None))
  /\ [][(cbEffects' # cbEffects /\ ~PageLoad)
          => /\ cbOutcome = "none"
             /\ cbOutcome' # "none"
             /\ path' = (IF cbOutcome' = "ok" THEN "/dashboard" ELSE "/")
             /\ hash' = <<>>
             /\ cbOutcome' = "ok" => user' # None]_vars

\* the exchange has failed for a visitor without a session: one navigation, to /
C21_Witness ==
  /\ cbOutcome = "failed"
  /\ cbEffects = <<"navigate:/">>
  /\ path = "/"
  /\ user = None
  /\ exchangeSent = 1

====
